---- MODULE Spec2Model ----
(***************************************************************************)
(* Model of the quarterly retirement manager (quarterly_review.py), its    *)
(* CLI driver (run_quarterly.py) and the momentum scorer (momentum.py).    *)
(*                                                                         *)
(* Python floats are modelled as exact rationals <<numerator, denominator>>*)
(* in lowest terms with a positive denominator.  Money is expressed in     *)
(* units of 1,250 dollars (1,000,000 dollars = 800 units); every formula   *)
(* of the program is homogeneous in money, so the unit changes no          *)
(* comparison and no rule.                                                 *)
(***************************************************************************)
EXTENDS Integers, Sequences, FiniteSets, TLC

VARIABLES config, portfolio, annual_withdrawal, audit_log, last, reviews, inflations,
          series_list, tally, momentum

vars == <<config, portfolio, annual_withdrawal, audit_log, last, reviews, inflations,
          series_list, tally, momentum>>

review_vars == <<config, portfolio, annual_withdrawal, audit_log, last, reviews, inflations>>

score_vars == <<series_list, tally, momentum>>

\* ── Bounds ──────────────────────────────────────────────────────────────────
MaxReviews == 2

MaxInflations == 2

\* ── Float arithmetic (exact rationals) ──────────────────────────────────────
Abs(x) == IF x < 0 THEN -x ELSE x

RECURSIVE GCD(_, _)
GCD(a, b) == IF b = 0 THEN a ELSE GCD(b, a % b)

Norm(n, d) ==
    LET s == IF d < 0 THEN -1 ELSE 1
        g == GCD(Abs(n), Abs(d))
    IN  <<(s * n) \div g, (s * d) \div g>>

R(n, d) == Norm(n, d)

Zero == <<0, 1>>

One == <<1, 1>>

\* sums, products and comparisons cancel common factors before multiplying,
\* which keeps the intermediate integers small; the values are unchanged
Add(a, b) ==
    LET g == GCD(a[2], b[2])
    IN  Norm(a[1] * (b[2] \div g) + b[1] * (a[2] \div g), (a[2] \div g) * b[2])

Neg(a) == <<-a[1], a[2]>>

Sub(a, b) == Add(a, Neg(b))

Mul(a, b) ==
    LET g1 == GCD(Abs(a[1]), b[2])
        g2 == GCD(Abs(b[1]), a[2])
    IN  Norm((a[1] \div g1) * (b[1] \div g2), (a[2] \div g2) * (b[2] \div g1))

\* true division; the caller guards b # Zero (Python raises ZeroDivisionError)
Div(a, b) == Mul(a, Norm(b[2], b[1]))

Lt(a, b) ==
    LET g == GCD(a[2], b[2])
    IN  a[1] * (b[2] \div g) < b[1] * (a[2] \div g)

Le(a, b) ==
    LET g == GCD(a[2], b[2])
    IN  a[1] * (b[2] \div g) <= b[1] * (a[2] \div g)

Gt(a, b) == Lt(b, a)

Ge(a, b) == Le(b, a)

\* ── RetirementConfig ────────────────────────────────────────────────────────
\* dataclass defaults, with the test's inflation_rate = 0
DefaultConfig ==
    [ initial_portfolio_value        |-> R(800, 1),
      base_withdrawal_rate           |-> R(1, 20),
      inflation_rate                 |-> Zero,
      prosperity_threshold           |-> R(6, 5),
      prosperity_increase            |-> R(1, 10),
      capital_preservation_threshold |-> R(4, 5),
      capital_preservation_decrease  |-> R(1, 10),
      max_withdrawal_rate            |-> R(3, 50),
      min_withdrawal_rate            |-> R(1, 40),
      signal_strength_threshold      |-> R(3, 10) ]

\* configurations a YAML file can supply (load_config applies no validation)
Configs ==
    { DefaultConfig,
      [DefaultConfig EXCEPT !.signal_strength_threshold = Zero],
      [DefaultConfig EXCEPT !.prosperity_threshold = R(7, 10)],
      [DefaultConfig EXCEPT !.prosperity_threshold = One,
                            !.capital_preservation_threshold = One],
      [DefaultConfig EXCEPT !.inflation_rate = R(4641, 10000)] }

\* ── PortfolioState ──────────────────────────────────────────────────────────
total_value(p) == Add(p.equity_value, p.bond_value)

equity_pct(p) ==
    IF total_value(p) # Zero THEN Div(p.equity_value, total_value(p)) ELSE Zero

bond_pct(p) ==
    IF total_value(p) # Zero THEN Div(p.bond_value, total_value(p)) ELSE Zero

\* ── Step 1: withdrawal source ───────────────────────────────────────────────
\* variant: a strength equal to the threshold counts as weak
decide_withdrawal_source_le(signal, strength, cfg) ==
    IF Le(strength, cfg.signal_strength_threshold)
    THEN "proportional"
    ELSE IF Gt(signal, Zero) THEN "equity" ELSE "bond"

\* variant: the weakness test reads the signal's magnitude, not the strength
decide_withdrawal_source_magnitude(signal, strength, cfg) ==
    IF Lt(Mul(R(Abs(signal[1]), signal[2]), R(2, 1)), cfg.signal_strength_threshold)
    THEN "proportional"
    ELSE IF Gt(signal, Zero) THEN "equity" ELSE "bond"

decide_withdrawal_source(signal, strength, cfg) ==
    IF Lt(strength, cfg.signal_strength_threshold)
    THEN "proportional"
    ELSE IF Gt(signal, Zero) THEN "equity" ELSE "bond"

\* ── Step 2: Guyton-Klinger amount ───────────────────────────────────────────
inflation_adj_baseline(p, cfg) == Mul(cfg.initial_portfolio_value, p.cumulative_inflation)

GKRaise == [err |-> "ZeroDivisionError", annual |-> Zero, rule |-> "none"]

\* variant: a raise that breaches the ceiling is capped and still reported
gk_prosperity_capped(p, current_annual_withdrawal, cfg) ==
    LET proposed == Mul(current_annual_withdrawal, Add(One, cfg.prosperity_increase))
    IN  IF total_value(p) = Zero
        THEN GKRaise
        ELSE IF Le(Div(proposed, total_value(p)), cfg.max_withdrawal_rate)
             THEN [err |-> "none", annual |-> proposed, rule |-> "prosperity"]
             ELSE [err |-> "none",
                   annual |-> Mul(total_value(p), cfg.max_withdrawal_rate),
                   rule |-> "prosperity"]

\* prosperity branch (the if of the if/elif)
gk_prosperity(p, current_annual_withdrawal, cfg) ==
    LET proposed == Mul(current_annual_withdrawal, Add(One, cfg.prosperity_increase))
    IN  IF total_value(p) = Zero
        THEN GKRaise
        ELSE IF Le(Div(proposed, total_value(p)), cfg.max_withdrawal_rate)
             THEN [err |-> "none", annual |-> proposed, rule |-> "prosperity"]
             ELSE [err |-> "none", annual |-> current_annual_withdrawal, rule |-> "none"]

\* variant: the floor branch reports "floor" without clamping to the floor
gk_capital_preservation_noclamp(p, current_annual_withdrawal, cfg) ==
    LET proposed == Mul(current_annual_withdrawal, Sub(One, cfg.capital_preservation_decrease))
    IN  IF total_value(p) = Zero
        THEN GKRaise
        ELSE IF Ge(Div(proposed, total_value(p)), cfg.min_withdrawal_rate)
             THEN [err |-> "none", annual |-> proposed, rule |-> "capital_preservation"]
             ELSE [err |-> "none", annual |-> proposed, rule |-> "floor"]

\* capital preservation branch (the elif)
gk_capital_preservation(p, current_annual_withdrawal, cfg) ==
    LET proposed == Mul(current_annual_withdrawal, Sub(One, cfg.capital_preservation_decrease))
    IN  IF total_value(p) = Zero
        THEN GKRaise
        ELSE IF Ge(Div(proposed, total_value(p)), cfg.min_withdrawal_rate)
             THEN [err |-> "none", annual |-> proposed, rule |-> "capital_preservation"]
             ELSE [err |-> "none",
                   annual |-> Mul(total_value(p), cfg.min_withdrawal_rate),
                   rule |-> "floor"]

\* variant: the capital-preservation threshold is compared with <=
gk_rules_nonstrict(p, current_annual_withdrawal, cfg) ==
    IF Gt(total_value(p), Mul(inflation_adj_baseline(p, cfg), cfg.prosperity_threshold))
    THEN gk_prosperity(p, current_annual_withdrawal, cfg)
    ELSE IF Le(total_value(p),
               Mul(inflation_adj_baseline(p, cfg), cfg.capital_preservation_threshold))
         THEN gk_capital_preservation(p, current_annual_withdrawal, cfg)
         ELSE [err |-> "none", annual |-> current_annual_withdrawal, rule |-> "none"]

\* the prosperity / capital-preservation steps, before the ceiling
gk_rules(p, current_annual_withdrawal, cfg) ==
    IF Gt(total_value(p), Mul(inflation_adj_baseline(p, cfg), cfg.prosperity_threshold))
    THEN gk_prosperity(p, current_annual_withdrawal, cfg)
    ELSE IF Lt(total_value(p),
               Mul(inflation_adj_baseline(p, cfg), cfg.capital_preservation_threshold))
         THEN gk_capital_preservation(p, current_annual_withdrawal, cfg)
         ELSE [err |-> "none", annual |-> current_annual_withdrawal, rule |-> "none"]

\* variant: the ceiling clamps the amount but keeps the earlier label
gk_ceiling_keeps_label(p, r, cfg) ==
    IF r.err # "none"
    THEN r
    ELSE IF total_value(p) = Zero
         THEN GKRaise
         ELSE IF Gt(Div(r.annual, total_value(p)), cfg.max_withdrawal_rate)
              THEN [err |-> "none",
                    annual |-> Mul(total_value(p), cfg.max_withdrawal_rate),
                    rule |-> r.rule]
              ELSE r

\* hard ceiling applied to the outcome r of the earlier steps
gk_ceiling(p, r, cfg) ==
    IF r.err # "none"
    THEN r
    ELSE IF total_value(p) = Zero
         THEN GKRaise
         ELSE IF Gt(Div(r.annual, total_value(p)), cfg.max_withdrawal_rate)
              THEN [err |-> "none",
                    annual |-> Mul(total_value(p), cfg.max_withdrawal_rate),
                    rule |-> "ceiling"]
              ELSE r

\* variant: the quarterly amount is a quarter of the withdrawal passed in
compute_gk_withdrawal_stale(p, current_annual_withdrawal, cfg) ==
    LET r == gk_ceiling(p, gk_rules(p, current_annual_withdrawal, cfg), cfg)
    IN  [err |-> r.err,
         quarterly_withdrawal  |-> Div(current_annual_withdrawal, R(4, 1)),
         new_annual_withdrawal |-> r.annual,
         rule_triggered        |-> r.rule]

compute_gk_withdrawal(p, current_annual_withdrawal, cfg) ==
    LET r == gk_ceiling(p, gk_rules(p, current_annual_withdrawal, cfg), cfg)
    IN  [err |-> r.err,
         quarterly_withdrawal  |-> Div(r.annual, R(4, 1)),
         new_annual_withdrawal |-> r.annual,
         rule_triggered        |-> r.rule]

\* ── Step 3: execute withdrawal ──────────────────────────────────────────────
\* variant: the overflow never takes bond_value below zero
execute_equity_clamped(p, amount) ==
    IF Gt(amount, p.equity_value)
    THEN LET overflow == Sub(amount, p.equity_value)
             rest     == Sub(p.bond_value, overflow)
         IN  [p EXCEPT !.equity_value = Zero,
                       !.bond_value = IF Lt(rest, Zero) THEN Zero ELSE rest]
    ELSE [p EXCEPT !.equity_value = Sub(p.equity_value, amount)]

execute_equity(p, amount) ==
    IF Gt(amount, p.equity_value)
    THEN LET overflow == Sub(amount, p.equity_value)
         IN  [p EXCEPT !.equity_value = Zero, !.bond_value = Sub(p.bond_value, overflow)]
    ELSE [p EXCEPT !.equity_value = Sub(p.equity_value, amount)]

\* variant: the whole amount is taken from bond_value, whatever it holds
execute_bond_unchecked(p, amount) ==
    [p EXCEPT !.bond_value = Sub(p.bond_value, amount)]

execute_bond(p, amount) ==
    IF Gt(amount, p.bond_value)
    THEN LET overflow == Sub(amount, p.bond_value)
         IN  [p EXCEPT !.bond_value = Zero, !.equity_value = Sub(p.equity_value, overflow)]
    ELSE [p EXCEPT !.bond_value = Sub(p.bond_value, amount)]

\* two statements in sequence: bond_pct is read from the portfolio the first
\* statement has already updated
execute_proportional(p, amount) ==
    LET p1 == [p EXCEPT !.equity_value = Sub(p.equity_value, Mul(amount, equity_pct(p)))]
    IN  [p1 EXCEPT !.bond_value = Sub(p1.bond_value, Mul(amount, bond_pct(p1)))]

execute_withdrawal(p, amount, source) ==
    IF source = "equity" THEN execute_equity(p, amount)
    ELSE IF source = "bond" THEN execute_bond(p, amount)
    ELSE execute_proportional(p, amount)

\* ── Inflation update helper ─────────────────────────────────────────────────
RootCandidates == { R(n, 10) : n \in 5..20 }

Pow4(r) == Mul(Mul(r, r), Mul(r, r))

\* x ** (1/4) for the rates of Configs, whose fourth root is rational
FourthRoot(x) == CHOOSE r \in RootCandidates : Pow4(r) = x

apply_quarterly_inflation(p, annual_inflation) ==
    LET quarterly_rate == Sub(FourthRoot(Add(One, annual_inflation)), One)
    IN  [p EXCEPT !.cumulative_inflation = Mul(p.cumulative_inflation, Add(One, quarterly_rate))]

\* ── Momentum scorer ─────────────────────────────────────────────────────────
\* A price series is a sequence of prices, oldest first, without missing
\* values (the series the price-data collaborator hands over).
MOMENTUM_HORIZONS == <<8, 9, 10>>

RECURSIVE SumLast(_, _)
SumLast(series, k) ==
    IF k = 0 THEN 0 ELSE series[Len(series)] + SumLast(SubSeq(series, 1, Len(series) - 1), k - 1)

\* series.rolling(window=n).mean().iloc[-1], for len(series) >= n
rolling_mean_last(series, n) == R(SumLast(series, n), n)

\* method 1 for horizon n: <<bullish, total>> added to the tally
sma_signal(series, n) ==
    IF Len(series) >= n
    THEN IF Gt(R(series[Len(series)], 1), rolling_mean_last(series, n)) THEN <<1, 1>> ELSE <<0, 1>>
    ELSE <<0, 0>>

\* variant: compares with the element n - 1 places before the last one
point_in_time_signal_off_by_one(series, n) ==
    IF Len(series) > n
    THEN IF series[Len(series)] > series[Len(series) - n + 1] THEN <<1, 1>> ELSE <<0, 1>>
    ELSE <<0, 0>>

\* method 2 for horizon n: series.iloc[-(n + 1)] is the element n places
\* before the last one
point_in_time_signal(series, n) ==
    IF Len(series) > n
    THEN IF series[Len(series)] > series[Len(series) - n] THEN <<1, 1>> ELSE <<0, 1>>
    ELSE <<0, 0>>

RECURSIVE score_horizons(_, _)
score_horizons(series, h) ==
    IF h > Len(MOMENTUM_HORIZONS)
    THEN <<0, 0>>
    ELSE LET n    == MOMENTUM_HORIZONS[h]
             m1   == sma_signal(series, n)
             m2   == point_in_time_signal(series, n)
             rest == score_horizons(series, h + 1)
         IN  <<m1[1] + m2[1] + rest[1], m1[2] + m2[2] + rest[2]>>

\* the loop over series_list from index i on, with the tally so far;
\* series.iloc[-1] raises IndexError on a series without observations
RECURSIVE score_from(_, _, _, _)
score_from(list, i, bullish, total) ==
    IF i > Len(list)
    THEN [err |-> "none", bullish |-> bullish, total |-> total]
    ELSE IF Len(list[i]) = 0
         THEN [err |-> "IndexError", bullish |-> 0, total |-> 0]
         ELSE LET t == score_horizons(list[i], 1)
              IN  score_from(list, i + 1, bullish + t[1], total + t[2])

compute_momentum_score(list) == score_from(list, 1, 0, 0)

\* ── Signal adapter ──────────────────────────────────────────────────────────
\* variant: the strength is the bare magnitude of the direction
signal_adapter_unscaled(bullish, total) ==
    LET score == IF total # 0 THEN R(bullish, total) ELSE R(1, 2)
        equity_signal == Sub(score, R(1, 2))
    IN  [err |-> "none", equity_signal |-> equity_signal,
         signal_strength |-> R(Abs(equity_signal[1]), equity_signal[2])]

\* the mapping of get_momentum_signal from the tally to the signal dict
signal_adapter(bullish, total) ==
    LET score == IF total # 0 THEN R(bullish, total) ELSE R(1, 2)
        equity_signal == Sub(score, R(1, 2))
    IN  [err |-> "none", equity_signal |-> equity_signal,
         signal_strength |-> Mul(R(Abs(equity_signal[1]), equity_signal[2]), R(2, 1))]

\* ── Inputs ──────────────────────────────────────────────────────────────────
\* (equity_value, bond_value) a caller starts a plan with: 100% and 125% of the
\* 800-unit baseline, 75% of it, an empty one
StartValues == { <<680, 120>>, <<850, 150>>, <<510, 90>>, <<0, 0>> }

\* values the caller writes into the portfolio before the next quarter: 75% of
\* the baseline, and a nearly depleted all-equity portfolio
NextValues == { <<510, 90>>, <<4, 0>> }

\* annual withdrawals handed to the first review, next to the CLI default
AnnualValues == { R(10, 1), R(35, 1), R(80, 1) }

\* (equity_signal, signal_strength) pairs the signal callable returns
Signals == { <<Zero, Zero>>, <<R(1, 12), R(1, 6)>>, <<R(1, 2), One>>,
             <<R(-1, 2), One>>, <<Zero, R(3, 10)>>, <<R(-1, 2), Zero>> }

\* inputs of a direct execute_withdrawal call; 8 units are 10,000 dollars
ExecEquity == { 0, 4, 510, 680 }

ExecBonds == { 0, 6, 90, 120 }

Amounts == { R(8, 1), R(10, 1), R(25, 2) }

Sources == { "equity", "bond", "proportional" }

Dates == { "2026-04-01" }

NoDecision == [quarter |-> 0]

NoTally == [err |-> "pending", bullish |-> 0, total |-> 0]

NoSignal == [err |-> "pending", equity_signal |-> Zero, signal_strength |-> Zero]

\* most observations in a series (fetch keeps up to 15 months)
MaxObs == 11

Prices == { 1, 2 }

\* a series of len observations: price x for the oldest a of them, then price y
StepSeries(len, a, x, y) == [i \in 1..len |-> IF i <= a THEN x ELSE y]

SeriesSet ==
    { StepSeries(len, a, x, y) : len \in 0..MaxObs, a \in 0..MaxObs, x \in Prices, y \in Prices }

SeriesLists == { <<>> } \cup { <<s>> : s \in SeriesSet }
                 \cup { <<s1, s2>> : s1 \in SeriesSet, s2 \in SeriesSet }

\* ── State machine ───────────────────────────────────────────────────────────
InitReview ==
    /\ config \in Configs
    /\ \E v \in StartValues :
         portfolio = [equity_value |-> R(v[1], 1), bond_value |-> R(v[2], 1),
                      quarter |-> 1, cumulative_inflation |-> One]
    /\ annual_withdrawal \in
         AnnualValues \cup {Mul(config.initial_portfolio_value, config.base_withdrawal_rate)}
    /\ audit_log = <<>>
    /\ last = [op |-> "init", err |-> "none", pre |-> portfolio,
               pre_annual |-> annual_withdrawal, signal |-> Zero, strength |-> Zero,
               amount |-> Zero, source |-> "none",
               decision |-> NoDecision]
    /\ reviews = 0
    /\ inflations = 0

QuarterlyDecision(p, signal, strength, source, gk) ==
    [ quarter               |-> p.quarter,
      momentum_signal       |-> signal,
      signal_strength       |-> strength,
      withdrawal_amount     |-> gk.quarterly_withdrawal,
      withdrawal_source     |-> source,
      gk_rule_triggered     |-> gk.rule_triggered,
      equity_value_after    |-> p.equity_value,
      bond_value_after      |-> p.bond_value,
      new_annual_withdrawal |-> gk.new_annual_withdrawal ]

\* variant: the file is opened for writing, not for appending
_write_audit_log_truncating(log, decision, today) ==
    <<[decision |-> decision, logged_at |-> today]>>

_write_audit_log(log, decision, today) ==
    Append(log, [decision |-> decision, logged_at |-> today])

\* one call of run_quarterly_review by a caller that stores the returned
\* annual withdrawal (test line 59, CLI line 143); both callers enter the
\* quarter's market values before the call.  The signal callable may raise
\* (signal_ok = FALSE) and so may the append to the audit log (write_ok =
\* FALSE); execute_withdrawal has by then updated the caller's portfolio
\* object in place.  No caller catches an exception, so a failed call ends
\* the run.
RunQuarterlyReview(signal_ok, signal, strength, today, write_ok) ==
    /\ last.err = "none"
    /\ reviews < MaxReviews
    /\ portfolio.quarter = reviews + 1
    /\ LET source == decide_withdrawal_source(signal, strength, config)
           gk     == compute_gk_withdrawal(portfolio, annual_withdrawal, config)
           after  == execute_withdrawal(portfolio, gk.quarterly_withdrawal, source)
           decision == QuarterlyDecision(after, signal, strength, source, gk)
       IN  IF ~signal_ok
           THEN /\ last' = [op |-> "run_quarterly_review", err |-> "SignalError",
                            pre |-> portfolio, pre_annual |-> annual_withdrawal,
                            signal |-> Zero, strength |-> Zero, amount |-> Zero,
                            source |-> "none", decision |-> NoDecision]
                /\ UNCHANGED <<portfolio, annual_withdrawal, audit_log>>
           ELSE IF gk.err # "none"
           THEN /\ last' = [op |-> "run_quarterly_review", err |-> gk.err, pre |-> portfolio,
                            pre_annual |-> annual_withdrawal, signal |-> signal,
                            strength |-> strength, amount |-> Zero,
                            source |-> source, decision |-> NoDecision]
                /\ UNCHANGED <<portfolio, annual_withdrawal, audit_log>>
           ELSE IF ~write_ok
           THEN /\ portfolio' = after
                /\ last' = [op |-> "run_quarterly_review", err |-> "OSError", pre |-> portfolio,
                            pre_annual |-> annual_withdrawal, signal |-> signal,
                            strength |-> strength, amount |-> gk.quarterly_withdrawal,
                            source |-> source, decision |-> decision]
                /\ UNCHANGED <<annual_withdrawal, audit_log>>
           ELSE /\ portfolio' = after
                /\ annual_withdrawal' = gk.new_annual_withdrawal
                /\ audit_log' = _write_audit_log(audit_log, decision, today)
                /\ last' = [op |-> "run_quarterly_review", err |-> "none", pre |-> portfolio,
                            pre_annual |-> annual_withdrawal, signal |-> signal,
                            strength |-> strength, amount |-> gk.quarterly_withdrawal,
                            source |-> source, decision |-> decision]
    /\ reviews' = reviews + 1
    /\ UNCHANGED <<config, inflations, score_vars>>

\* the caller writes the new market values and quarter label into the
\* portfolio once the quarter's review has run
SetPortfolioValues(e, b) ==
    /\ last.err = "none"
    /\ reviews < MaxReviews
    /\ portfolio.quarter = reviews
    /\ portfolio' = [portfolio EXCEPT !.equity_value = R(e, 1), !.bond_value = R(b, 1),
                                      !.quarter = @ + 1]
    /\ last' = [op |-> "set_values", err |-> "none", pre |-> portfolio,
                pre_annual |-> annual_withdrawal, signal |-> Zero, strength |-> Zero,
                amount |-> Zero, source |-> "none",
                decision |-> NoDecision]
    /\ UNCHANGED <<config, annual_withdrawal, audit_log, reviews, inflations, score_vars>>

ApplyQuarterlyInflation ==
    /\ last.err = "none"
    /\ inflations < MaxInflations
    /\ portfolio' = apply_quarterly_inflation(portfolio, config.inflation_rate)
    /\ last' = [op |-> "apply_quarterly_inflation", err |-> "none", pre |-> portfolio,
                pre_annual |-> annual_withdrawal, signal |-> Zero, strength |-> Zero,
                amount |-> Zero, source |-> "none",
                decision |-> NoDecision]
    /\ inflations' = inflations + 1
    /\ UNCHANGED <<config, annual_withdrawal, audit_log, reviews, score_vars>>

\* execute_withdrawal applied to a portfolio and an amount drawn by InitExec
ExecuteWithdrawal(source) ==
    /\ last.op = "exec_input"
    /\ portfolio' = execute_withdrawal(portfolio, last.amount, source)
    /\ last' = [last EXCEPT !.op = "execute_withdrawal", !.source = source]
    /\ UNCHANGED <<config, annual_withdrawal, audit_log, reviews, inflations, score_vars>>

Init ==
    /\ InitReview
    /\ series_list = <<>>
    /\ tally = NoTally
    /\ momentum = NoSignal

Next ==
    \/ \E sg \in Signals, today \in Dates, signal_ok \in BOOLEAN, write_ok \in BOOLEAN :
          RunQuarterlyReview(signal_ok, sg[1], sg[2], today, write_ok)
    \/ \E v \in NextValues : SetPortfolioValues(v[1], v[2])
    \/ ApplyQuarterlyInflation

Spec == Init /\ [][Next]_vars

\* compute_momentum_score as a function of its input
ComputeMomentumScore ==
    /\ tally.err = "pending"
    /\ tally' = compute_momentum_score(series_list)
    /\ UNCHANGED <<review_vars, series_list, momentum>>

\* get_momentum_signal on the two series it fetched (total-return and
\* price-return index): the score, then the adapter; an exception of the
\* scorer passes through
GetMomentumSignal ==
    /\ tally.err = "pending"
    /\ Len(series_list) = 2
    /\ LET t == compute_momentum_score(series_list)
       IN  /\ tally' = t
           /\ momentum' = IF t.err # "none"
                          THEN [NoSignal EXCEPT !.err = t.err]
                          ELSE signal_adapter(t.bullish, t.total)
    /\ UNCHANGED <<review_vars, series_list>>

InitScore ==
    /\ config = DefaultConfig
    /\ portfolio = [equity_value |-> R(680, 1), bond_value |-> R(120, 1),
                    quarter |-> 1, cumulative_inflation |-> One]
    /\ annual_withdrawal = Mul(config.initial_portfolio_value, config.base_withdrawal_rate)
    /\ audit_log = <<>>
    /\ last = [op |-> "init", err |-> "none", pre |-> portfolio,
               pre_annual |-> annual_withdrawal, signal |-> Zero, strength |-> Zero,
               amount |-> Zero, source |-> "none",
               decision |-> NoDecision]
    /\ reviews = 0
    /\ inflations = 0
    /\ series_list \in SeriesLists
    /\ tally = NoTally
    /\ momentum = NoSignal

NextScore == ComputeMomentumScore \/ GetMomentumSignal

SpecScore == InitScore /\ [][NextScore]_vars

\* execute_withdrawal as a function of its inputs
InitExec ==
    /\ config = DefaultConfig
    /\ \E e \in ExecEquity, b \in ExecBonds :
         portfolio = [equity_value |-> R(e, 1), bond_value |-> R(b, 1),
                      quarter |-> 1, cumulative_inflation |-> One]
    /\ annual_withdrawal = Mul(config.initial_portfolio_value, config.base_withdrawal_rate)
    /\ audit_log = <<>>
    /\ \E amount \in Amounts :
         last = [op |-> "exec_input", err |-> "none", pre |-> portfolio,
                 pre_annual |-> annual_withdrawal, signal |-> Zero, strength |-> Zero,
                 amount |-> amount, source |-> "none",
                 decision |-> NoDecision]
    /\ reviews = 0
    /\ inflations = 0
    /\ series_list = <<>>
    /\ tally = NoTally
    /\ momentum = NoSignal

NextExec == \E source \in Sources : ExecuteWithdrawal(source)

SpecExec == InitExec /\ [][NextExec]_vars

\* ── Properties of the Guyton-Klinger rule engine (Spec) ─────────────────────
Called == last.op = "run_quarterly_review"

\* the call got past the signal callable
Reviewed == Called /\ last.err # "SignalError"

PreTotal == total_value(last.pre)

PreBaseline == inflation_adj_baseline(last.pre, config)

ProsperityCondition == Gt(PreTotal, Mul(PreBaseline, config.prosperity_threshold))

PreservationCondition ==
    /\ ~ProsperityCondition
    /\ Lt(PreTotal, Mul(PreBaseline, config.capital_preservation_threshold))

Raised == Mul(last.pre_annual, Add(One, config.prosperity_increase))

Cut == Mul(last.pre_annual, Sub(One, config.capital_preservation_decrease))

Ceiling == Mul(PreTotal, config.max_withdrawal_rate)

Floor == Mul(PreTotal, config.min_withdrawal_rate)

OverCeiling(w) == Gt(Div(w, PreTotal), config.max_withdrawal_rate)

\* C1: for total_value > 0 the returned annual withdrawal never exceeds
\* total_value * max_withdrawal_rate, and whenever the withdrawal left by the
\* prosperity / capital-preservation steps exceeds that rate the result is
\* exactly total_value * max_withdrawal_rate with rule "ceiling".
C1_HardCeiling ==
    (Reviewed /\ Gt(PreTotal, Zero)) =>
        /\ Le(Div(last.decision.new_annual_withdrawal, PreTotal), config.max_withdrawal_rate)
        /\ OverCeiling(gk_rules(last.pre, last.pre_annual, config).annual) =>
              /\ last.decision.new_annual_withdrawal = Ceiling
              /\ last.decision.gk_rule_triggered = "ceiling"

\* a capital-preservation cut that the ceiling overrode
C1_Witness ==
    /\ Reviewed /\ Gt(PreTotal, Zero)
    /\ gk_rules(last.pre, last.pre_annual, config).rule = "capital_preservation"
    /\ last.decision.gk_rule_triggered = "ceiling"

\* C2 as stated: under the prosperity condition the raise is reported only
\* within the ceiling, and a rejected raise returns the withdrawal passed in.
C2_Original ==
    (Reviewed /\ ProsperityCondition) =>
        /\ last.decision.gk_rule_triggered = "prosperity" => ~OverCeiling(Raised)
        /\ OverCeiling(Raised) => last.decision.new_annual_withdrawal = last.pre_annual

\* C2 amended: with total_value > 0 under the prosperity condition, a raise
\* within the ceiling is returned with rule "prosperity"; a rejected raise
\* leaves the withdrawal to the ceiling check alone, which returns it unchanged
\* with rule "none" if it is within the ceiling and total_value *
\* max_withdrawal_rate with rule "ceiling" otherwise.
C2_Prosperity ==
    (Reviewed /\ ProsperityCondition /\ Gt(PreTotal, Zero)) =>
        IF ~OverCeiling(Raised)
        THEN /\ last.decision.new_annual_withdrawal = Raised
             /\ last.decision.gk_rule_triggered = "prosperity"
        ELSE IF ~OverCeiling(last.pre_annual)
             THEN /\ last.decision.new_annual_withdrawal = last.pre_annual
                  /\ last.decision.gk_rule_triggered = "none"
             ELSE /\ last.decision.new_annual_withdrawal = Ceiling
                  /\ last.decision.gk_rule_triggered = "ceiling"

\* a rejected raise that came back unchanged
C2_Witness ==
    /\ Reviewed /\ ProsperityCondition /\ Gt(PreTotal, Zero)
    /\ OverCeiling(Raised)
    /\ last.decision.new_annual_withdrawal = last.pre_annual
    /\ last.decision.gk_rule_triggered = "none"

\* C3: when the capital-preservation step is evaluated below its threshold
\* (total_value # 0), the cut is taken with rule "capital_preservation" if
\* cut / total_value >= min_withdrawal_rate and the withdrawal becomes
\* total_value * min_withdrawal_rate with rule "floor" otherwise; only the
\* ceiling may then override the result.
C3_CapitalPreservation ==
    (Reviewed /\ PreservationCondition /\ PreTotal # Zero) =>
        LET accepted == Ge(Div(Cut, PreTotal), config.min_withdrawal_rate)
            stepW    == IF accepted THEN Cut ELSE Floor
            stepRule == IF accepted THEN "capital_preservation" ELSE "floor"
        IN  IF OverCeiling(stepW)
            THEN /\ last.decision.new_annual_withdrawal = Ceiling
                 /\ last.decision.gk_rule_triggered = "ceiling"
            ELSE /\ last.decision.new_annual_withdrawal = stepW
                 /\ last.decision.gk_rule_triggered = stepRule

\* a cut below the floor rate, clamped to the floor
C3_Witness ==
    /\ Reviewed /\ PreservationCondition /\ PreTotal # Zero
    /\ Lt(Div(Cut, PreTotal), config.min_withdrawal_rate)
    /\ last.decision.gk_rule_triggered = "floor"
    /\ last.decision.new_annual_withdrawal = Floor

\* C4 as stated: a portfolio exactly at the baseline reports rule "none" for
\* every withdrawal and config.
C4_Original ==
    (Reviewed /\ last.err = "none" /\ PreTotal = PreBaseline) =>
        last.decision.gk_rule_triggered = "none"

\* C4 amended: with total_value equal to a positive baseline,
\* prosperity_threshold >= 1 and capital_preservation_threshold <= 1, neither
\* the prosperity nor the capital-preservation step fires; the rule is "none"
\* and the withdrawal unchanged when current / total_value <=
\* max_withdrawal_rate, and the ceiling clamps it with rule "ceiling" otherwise.
C4_AtBaseline ==
    (/\ Reviewed /\ PreTotal = PreBaseline /\ Gt(PreTotal, Zero)
     /\ Ge(config.prosperity_threshold, One)
     /\ Le(config.capital_preservation_threshold, One)) =>
        IF OverCeiling(last.pre_annual)
        THEN /\ last.decision.gk_rule_triggered = "ceiling"
             /\ last.decision.new_annual_withdrawal = Ceiling
        ELSE /\ last.decision.gk_rule_triggered = "none"
             /\ last.decision.new_annual_withdrawal = last.pre_annual

\* at the baseline with both thresholds at exactly 1, no rule fired
C4_Witness ==
    /\ Reviewed /\ PreTotal = PreBaseline /\ Gt(PreTotal, Zero)
    /\ config.prosperity_threshold = One
    /\ config.capital_preservation_threshold = One
    /\ last.decision.gk_rule_triggered = "none"

\* the second quarter of the test: 510 + 90 units (637,500 + 112,500 dollars)
\* against an 800-unit baseline under the test's configuration, entered with
\* the 40 units (50,000 dollars) an unchanged first quarter handed on
SecondQuarterOfTest ==
    /\ Reviewed
    /\ Len(audit_log) = 2
    /\ audit_log[1].decision.gk_rule_triggered = "none"
    /\ audit_log[1].decision.new_annual_withdrawal = R(40, 1)
    /\ last.pre_annual = R(40, 1)
    /\ last.pre.equity_value = R(510, 1) /\ last.pre.bond_value = R(90, 1)
    /\ PreBaseline = R(800, 1)
    /\ config.prosperity_threshold = R(6, 5)
    /\ config.capital_preservation_threshold = R(4, 5)
    /\ config.capital_preservation_decrease = R(1, 10)
    /\ config.max_withdrawal_rate = R(3, 50)
    /\ config.min_withdrawal_rate = R(1, 40)

\* C5: a review in which no rule fires hands the annual withdrawal on
\* unchanged, and the test's second quarter reports "capital_preservation",
\* an annual withdrawal of 36 units (45,000 dollars, the carried value * 0.90)
\* and a quarterly withdrawal of 9 units (11,250 dollars).
C5_TwoQuarters ==
    /\ (Reviewed /\ last.err = "none" /\ last.decision.gk_rule_triggered = "none") =>
          /\ last.decision.new_annual_withdrawal = last.pre_annual
          /\ annual_withdrawal = last.pre_annual
    /\ SecondQuarterOfTest =>
          /\ last.decision.gk_rule_triggered = "capital_preservation"
          /\ last.decision.new_annual_withdrawal = R(36, 1)
          /\ last.decision.new_annual_withdrawal = Mul(last.pre_annual, R(9, 10))
          /\ last.decision.withdrawal_amount = R(9, 1)
          /\ audit_log[2].decision = last.decision

C5_Witness == SecondQuarterOfTest /\ last.decision.withdrawal_amount = R(9, 1)

\* ── Properties of the withdrawal executor (SpecExec) ────────────────────────
Executed(source) == last.op = "execute_withdrawal" /\ last.source = source

\* C6: a proportional withdrawal subtracts amount * equity_pct from
\* equity_value and amount * bond_pct from bond_value, both percentages being
\* those of the portfolio before the withdrawal.
C6_ProportionalPreWithdrawal ==
    Executed("proportional") =>
        /\ portfolio.equity_value =
              Sub(last.pre.equity_value, Mul(last.amount, equity_pct(last.pre)))
        /\ portfolio.bond_value =
              Sub(last.pre.bond_value, Mul(last.amount, bond_pct(last.pre)))

\* C7: source "equity" subtracts the amount from equity_value when it fits and
\* otherwise zeroes equity_value and subtracts the overflow from bond_value
\* without clamping; source "bond" does the same with the roles exchanged.
C7_DirectedOverflow ==
    /\ Executed("equity") =>
          IF Le(last.amount, last.pre.equity_value)
          THEN /\ portfolio.equity_value = Sub(last.pre.equity_value, last.amount)
               /\ portfolio.bond_value = last.pre.bond_value
          ELSE /\ portfolio.equity_value = Zero
               /\ portfolio.bond_value =
                     Sub(last.pre.bond_value, Sub(last.amount, last.pre.equity_value))
    /\ Executed("bond") =>
          IF Le(last.amount, last.pre.bond_value)
          THEN /\ portfolio.bond_value = Sub(last.pre.bond_value, last.amount)
               /\ portfolio.equity_value = last.pre.equity_value
          ELSE /\ portfolio.bond_value = Zero
               /\ portfolio.equity_value =
                     Sub(last.pre.equity_value, Sub(last.amount, last.pre.bond_value))

\* an equity withdrawal whose overflow took bond_value below zero
C7_Witness ==
    /\ Executed("equity")
    /\ Gt(last.amount, last.pre.equity_value)
    /\ portfolio.equity_value = Zero
    /\ Lt(portfolio.bond_value, Zero)

\* ── Properties of the withdrawal source (Spec) ──────────────────────────────
\* C8: the source is "proportional" iff strength < signal_strength_threshold;
\* otherwise it is "equity" for direction > 0 and "bond" for direction <= 0.
C8_SourceDecision ==
    Reviewed =>
        /\ last.source = "proportional" <=>
              Lt(last.strength, config.signal_strength_threshold)
        /\ ~Lt(last.strength, config.signal_strength_threshold) =>
              last.source = IF Gt(last.signal, Zero) THEN "equity" ELSE "bond"

\* direction 0 at a strength equal to a positive threshold gives "bond"
C8_Witness ==
    /\ Reviewed /\ last.err = "none"
    /\ last.signal = Zero
    /\ last.strength = config.signal_strength_threshold
    /\ Gt(config.signal_strength_threshold, Zero)
    /\ last.decision.withdrawal_source = "bond"

\* C9 as stated: strength 0 gives "proportional" for every config.
C9_Original == (Reviewed /\ last.strength = Zero) => last.source = "proportional"

\* C9 amended: for every config with signal_strength_threshold > 0 and every
\* direction, strength 0 gives "proportional".
C9_ZeroStrength ==
    (Reviewed /\ last.strength = Zero /\ Gt(config.signal_strength_threshold, Zero)) =>
        last.source = "proportional"

\* strength 0 with a negative direction, withdrawn proportionally
C9_Witness ==
    /\ Reviewed /\ last.err = "none"
    /\ last.strength = Zero /\ Lt(last.signal, Zero)
    /\ Gt(config.signal_strength_threshold, Zero)
    /\ last.decision.withdrawal_source = "proportional"

\* ── Properties of the momentum scorer (SpecScore) ───────────────────────────
Scored == tally.err = "none"

Horizons == { 8, 9, 10 }

RECURSIVE SumRange(_, _, _)
SumRange(series, lo, hi) ==
    IF lo > hi THEN 0 ELSE series[lo] + SumRange(series, lo + 1, hi)

Latest(i) == series_list[i][Len(series_list[i])]

SmaCounted(i, n) == Len(series_list[i]) >= n

SmaBullish(i, n) ==
    LET series == series_list[i]
    IN  Latest(i) * n > SumRange(series, Len(series) - n + 1, Len(series))

PointCounted(i, n) == Len(series_list[i]) > n

PointBullish(i, n) == Latest(i) > series_list[i][Len(series_list[i]) - n]

CountedSignals ==
    { <<i, n, "sma">> : i \in 1..Len(series_list), n \in Horizons }
    \cup { <<i, n, "point">> : i \in 1..Len(series_list), n \in Horizons }

IsCounted(sg) == IF sg[3] = "sma" THEN SmaCounted(sg[1], sg[2]) ELSE PointCounted(sg[1], sg[2])

IsBullish(sg) == IF sg[3] = "sma" THEN SmaBullish(sg[1], sg[2]) ELSE PointBullish(sg[1], sg[2])

\* C10: in a returned tally, total is the number of signals counted (SMA
\* crossover iff the series has >= n observations, point-in-time iff it has
\* > n) and bullish the number of counted signals that are true (latest above
\* the mean of the last n observations, latest above the observation n
\* periods earlier); 0 <= bullish <= total <= 6 * number of series, and two
\* series of at least 11 observations give total 12.
C10_Tally ==
    Scored =>
        /\ tally.total = Cardinality({ sg \in CountedSignals : IsCounted(sg) })
        /\ tally.bullish =
              Cardinality({ sg \in CountedSignals : IsCounted(sg) /\ IsBullish(sg) })
        /\ 0 <= tally.bullish
        /\ tally.bullish <= tally.total
        /\ tally.total <= 6 * Len(series_list)
        /\ (Len(series_list) = 2 /\ \A i \in 1..2 : Len(series_list[i]) >= 11) =>
              tally.total = 12

\* two full series whose twelve signals disagree
C10_Witness ==
    /\ Scored
    /\ Len(series_list) = 2 /\ \A i \in 1..2 : Len(series_list[i]) >= 11
    /\ tally.total = 12
    /\ tally.bullish > 0 /\ tally.bullish < 12

\* ── Properties of the signal adapter (SpecScore) ────────────────────────────
Adapted == momentum.err = "none"

TallyScore == IF tally.total = 0 THEN R(1, 2) ELSE R(tally.bullish, tally.total)

\* C11: the adapter returns direction = score - 0.5 in [-0.5, 0.5] and
\* strength = |direction| * 2 in [0, 1], with score = bullish / total (0.5 for
\* an empty tally); strength is 1 exactly for a unanimous tally and 0 exactly
\* for score 0.5; 7 of 12 gives direction 1/12 and strength 1/6, which a 0.30
\* threshold sends to the proportional source.
C11_SignalAdapter ==
    Adapted =>
        /\ 0 <= tally.bullish /\ tally.bullish <= tally.total
        /\ momentum.equity_signal = Sub(TallyScore, R(1, 2))
        /\ Le(R(-1, 2), momentum.equity_signal) /\ Le(momentum.equity_signal, R(1, 2))
        /\ momentum.signal_strength =
              IF Lt(momentum.equity_signal, Zero)
              THEN Mul(Neg(momentum.equity_signal), R(2, 1))
              ELSE Mul(momentum.equity_signal, R(2, 1))
        /\ Le(Zero, momentum.signal_strength) /\ Le(momentum.signal_strength, One)
        /\ momentum.signal_strength = One <=>
              (tally.total > 0 /\ (tally.bullish = 0 \/ tally.bullish = tally.total))
        /\ momentum.signal_strength = Zero <=> TallyScore = R(1, 2)
        /\ (tally.bullish = 7 /\ tally.total = 12) =>
              /\ momentum.equity_signal = R(1, 12)
              /\ momentum.signal_strength = R(1, 6)
              /\ decide_withdrawal_source(momentum.equity_signal, momentum.signal_strength,
                                          DefaultConfig) = "proportional"

\* seven bullish signals of twelve, adapted
C11_Witness ==
    /\ Adapted
    /\ tally.bullish = 7 /\ tally.total = 12
    /\ momentum.signal_strength = R(1, 6)

\* ── Failure behaviour of the quarterly review (Spec) ────────────────────────
\* C12: compute_gk_withdrawal returns a result and never raises, also for a
\* portfolio whose total_value is zero.
C12_NeverRaises == Reviewed => last.err # "ZeroDivisionError"

\* C13: when a step of run_quarterly_review fails, the caller's PortfolioState
\* is exactly what it was before the call.
C13_Atomic == (Called /\ last.err # "none") => portfolio = last.pre

\* ── Short and missing price history (SpecScore) ─────────────────────────────
ShortHistory == \E i \in 1..Len(series_list) : Len(series_list[i]) < 10

\* C14: when a series has fewer than 10 observations, scoring ends in a
\* failure: compute_momentum_score returns no ordinary tally and
\* get_momentum_signal returns no signal (no neutral 0.5 substituted).
C14_ShortHistoryFails ==
    (tally.err # "pending" /\ ShortHistory) =>
        /\ tally.err # "none"
        /\ momentum.err # "none"

\* ── Inflation, audit log and rule order of the review (Spec) ────────────────
\* C15: when compute_gk_withdrawal reads cumulative_inflation in the k-th
\* review, apply_quarterly_inflation has advanced it exactly k times.
C15_InflationOncePerReview == Reviewed => inflations = reviews

Succeeded == Called /\ last.err = "none"

\* C16: every step leaves the audit log as it was, except a successful
\* run_quarterly_review, which appends exactly one record (that review's
\* QuarterlyDecision and a logged_at date) behind the unchanged earlier
\* records; the log holds one record per successful review.
C16_AppendOnly ==
    /\ [](Len(audit_log) = reviews - (IF Called /\ last.err # "none" THEN 1 ELSE 0))
    /\ [][IF reviews' = reviews + 1 /\ last'.err = "none"
          THEN \E today \in Dates :
                  audit_log' = Append(audit_log, [decision  |-> last'.decision,
                                                  logged_at |-> today])
          ELSE audit_log' = audit_log]_vars

\* two successful reviews, both records in the log in the order written
C16_Witness ==
    /\ Succeeded
    /\ Len(audit_log) = 2
    /\ audit_log[1].decision.quarter = 1
    /\ audit_log[2].decision = last.decision

\* C17: for total_value > 0 and min_withdrawal_rate <= max_withdrawal_rate the
\* returned annual withdrawal is at least total_value * min_withdrawal_rate,
\* whichever rule is reported.
C17_HardFloor ==
    (/\ Reviewed /\ Gt(PreTotal, Zero)
     /\ Le(config.min_withdrawal_rate, config.max_withdrawal_rate)) =>
        Ge(Div(last.decision.new_annual_withdrawal, PreTotal), config.min_withdrawal_rate)

ProsperityFired == ProsperityCondition /\ ~OverCeiling(Raised)

\* C18: whenever prosperity did not fire (its condition false, or its raise
\* rejected at the ceiling) and total_value < baseline *
\* capital_preservation_threshold, the returned annual withdrawal is the cut,
\* or the floor when the cut is under the floor rate, capped by the ceiling.
C18_PreservationEvaluated ==
    (/\ Reviewed /\ PreTotal # Zero /\ ~ProsperityFired
     /\ Lt(PreTotal, Mul(PreBaseline, config.capital_preservation_threshold))) =>
        LET stepW == IF Ge(Div(Cut, PreTotal), config.min_withdrawal_rate)
                     THEN Cut ELSE Floor
        IN  last.decision.new_annual_withdrawal =
                IF OverCeiling(stepW) THEN Ceiling ELSE stepW

\* C19: for every series list, also one with a series of fewer than 8 or of
\* no observations, compute_momentum_score returns a tally, to which the
\* signals without enough history add nothing.
C19_SkippedWithoutFailure ==
    tally.err # "pending" =>
        /\ tally.err = "none"
        /\ tally.total = Cardinality({ sg \in CountedSignals : IsCounted(sg) })

\* C20: had the signal callable returned any other signal for the same
\* portfolio, annual withdrawal and config, withdrawal_amount,
\* new_annual_withdrawal and gk_rule_triggered would be the same and so would
\* the total_value left after the withdrawal.
C20_SignalIndependent ==
    Succeeded =>
        \A sg \in Signals :
            LET gk     == compute_gk_withdrawal(last.pre, last.pre_annual, config)
                source == decide_withdrawal_source(sg[1], sg[2], config)
                other  == execute_withdrawal(last.pre, gk.quarterly_withdrawal, source)
            IN  /\ last.decision.withdrawal_amount = gk.quarterly_withdrawal
                /\ last.decision.new_annual_withdrawal = gk.new_annual_withdrawal
                /\ last.decision.gk_rule_triggered = gk.rule_triggered
                /\ total_value(other) = total_value(portfolio)

\* ── Conservation and non-negativity of withdrawals ──────────────────────────
\* C21: for every source, every amount >= 0 and every portfolio with
\* equity_value >= 0, bond_value >= 0 and total_value > 0, execute_withdrawal
\* lowers total_value by exactly the amount and leaves quarter and
\* cumulative_inflation as they were.
C21_Conservation ==
    (/\ last.op = "execute_withdrawal"
     /\ Ge(last.amount, Zero)
     /\ Ge(last.pre.equity_value, Zero) /\ Ge(last.pre.bond_value, Zero)
     /\ Gt(total_value(last.pre), Zero)) =>
        /\ total_value(portfolio) = Sub(total_value(last.pre), last.amount)
        /\ portfolio.quarter = last.pre.quarter
        /\ portfolio.cumulative_inflation = last.pre.cumulative_inflation

Withdrawn == Called /\ last.err \in { "none", "OSError" }

UnitInterval(x) == Le(Zero, x) /\ Le(x, One)

\* C22: when a quarter starts with equity_value >= 0, bond_value >= 0,
\* total_value > 0, annual withdrawal >= 0 and a config with
\* 0 <= min_withdrawal_rate <= max_withdrawal_rate <= 1 and increase and
\* decrease fractions in [0, 1], the quarterly amount is at most
\* total_value * max_withdrawal_rate / 4 and equity_value and bond_value are
\* both >= 0 after the withdrawal, whatever the signal and the source.
C22_NonNegative ==
    (/\ Withdrawn
     /\ Ge(last.pre.equity_value, Zero) /\ Ge(last.pre.bond_value, Zero)
     /\ Gt(PreTotal, Zero) /\ Ge(last.pre_annual, Zero)
     /\ Le(Zero, config.min_withdrawal_rate)
     /\ Le(config.min_withdrawal_rate, config.max_withdrawal_rate)
     /\ Le(config.max_withdrawal_rate, One)
     /\ UnitInterval(config.prosperity_increase)
     /\ UnitInterval(config.capital_preservation_decrease)) =>
        /\ Le(last.decision.withdrawal_amount, Div(Ceiling, R(4, 1)))
        /\ Ge(portfolio.equity_value, Zero)
        /\ Ge(portfolio.bond_value, Zero)

\* a withdrawal at the ceiling, directed at the bonds of a portfolio that
\* holds none: the whole amount spills over to the equity
C22_Witness ==
    /\ Withdrawn /\ Gt(PreTotal, Zero)
    /\ last.source = "bond"
    /\ Gt(last.amount, last.pre.bond_value)
    /\ last.decision.withdrawal_amount = Div(Ceiling, R(4, 1))
    /\ portfolio.bond_value = Zero
    /\ portfolio.equity_value = Sub(last.pre.equity_value, last.amount)

====
